---- MODULE Spec2Model ----
(***************************************************************************)
(* Field placement model (client, PDFViewer.tsx / PlacedField) and PDF     *)
(* annotation renderer (server, pdfController.ts signPdf) of BoloForms.     *)
(*                                                                         *)
(* Client percentages are integers (whole percent).  Server lengths are    *)
(* exact: the unit is 1/200 of a PDF point, so that (v/100)*pageSize and   *)
(* the halves taken for a radio circle are integers (2*v*pageSize).        *)
(* IEEE rounding of the JavaScript doubles is not modelled.                *)
(***************************************************************************)
EXTENDS Integers, Sequences, FiniteSets, TLC

VARIABLES
    fields,      \* useState<FieldData[]>            PDFViewer.tsx:185
    nextId,      \* source of fresh field ids        PDFViewer.tsx:320
    activeItem,  \* useState<ActiveDragItem | null>  PDFViewer.tsx:186  (<<>> is null)
    overPageId,  \* useState<string | null>          PDFViewer.tsx:187  (<<>> is null)
    listeners,   \* pointermove listeners registered on document by resize gestures
    rafQueue,    \* callbacks handed to requestAnimationFrame, not yet run
    lastOp,      \* the event handled by the last step, with its inputs
    nEvents,     \* number of events the client has handled in this session
    sreq,        \* server: fieldList and pages of the request being handled
    spc,         \* server: position in signPdf
    sidx,        \* server: index of the next field of fieldList
    marks,       \* server: drawing calls made on the pages so far
    sres,        \* server: the responses sent for the request (<<>> while none)
    req,         \* server: the request as received (req.body)
    body,        \* server: pdfBase64 and fields taken from the body, line 21
    pdfBuffer,   \* server: the source bytes, line 32 (<<>> while unassigned)
    originalHash, \* server: line 58 (<<>> while unassigned)
    pdfDoc,      \* server: the loaded document, line 61 (<<>> while unassigned)
    disk,        \* server: which of possiblePaths exist on the file system
    now,         \* server: the clock, in seconds
    log,         \* server: the requests answered before, with their responses
    handlers,    \* server: the invocations of signPdf in progress, each with its locals
    signs,       \* client: the invocations of handleSign, in the order of the clicks
    modalState   \* client: useState<ModalState>           PDFViewer.tsx:189

cvars == <<fields, nextId, activeItem, overPageId, listeners, rafQueue, lastOp, nEvents>>
svars == <<sreq, spc, sidx, marks, sres, req, body, pdfBuffer, originalHash, pdfDoc,
           disk, now, log>>
xvars == <<handlers, signs, modalState>>
vars == <<fields, nextId, activeItem, overPageId, listeners, rafQueue, lastOp,
          nEvents, sreq, spc, sidx, marks, sres, req, body, pdfBuffer, originalHash,
          pdfDoc, disk, now, log, handlers, signs, modalState>>

Max(a, b) == IF a >= b THEN a ELSE b
Min(a, b) == IF a <= b THEN a ELSE b

-----------------------------------------------------------------------------
(* Bounds of the model *)

\* number of pages of the document loaded in the viewer
NumPages == 2
\* events (drag, resize, frame, delete) handled by the client in one run
MaxEvents == 7
\* ids handed out by tool drops in one run
MaxIds == 2
\* resize gestures whose document listeners are registered at the same time
MaxListeners == 1
\* requestAnimationFrame callbacks waiting for the next frame
MaxQueue == 2

FieldTypes == {"text", "signature", "date", "image", "radio"}
\* tools dragged from the sidebar in the runs explored
DropTypes == {"text", "signature"}
\* pointer positions of a drop, in percent of the page dropped on
DropPoints == {<<-20, -10>>, <<30, 50>>, <<130, 120>>}
\* pointer travel of a resize, in percent of the page
ResizeDeltas == {<<-100, -100>>, <<100, 100>>}

-----------------------------------------------------------------------------
(* Client: PDFViewer *)

defaultWidth == 20
defaultHeight == 5
minWidth == 5
minHeight == 2

\* droppable id `page-${pageNumber}` and its parse, parseInt(pageId.split('-')[1])
PageId(pageNumber) == <<"page", pageNumber>>
\* variant: the page number parsed one too high
PageOfIdNext(pageId) == pageId[2] + 1
\* parseInt(pageId.split('-')[1])
PageOfId(pageId) == pageId[2]

NoOp == [op |-> "init", id |-> 0, over |-> 0, rect |-> FALSE, px |-> 0, py |-> 0]

Ids(flds) == {flds[i].id : i \in 1..Len(flds)}

\* variant: NewField with the two clamps left out
NewFieldUnclamped(id, type, pageId, percentX, percentY) ==
    [id |-> id, type |-> type, x |-> percentX, y |-> percentY,
     width |-> defaultWidth, height |-> defaultHeight, page |-> PageOfId(pageId)]

\* handleDragEnd, tool branch: the field created
NewField(id, type, pageId, percentX, percentY) ==
    [id     |-> id,
     type   |-> type,
     x      |-> Max(0, Min(100 - defaultWidth, percentX)),
     y      |-> Max(0, Min(100 - defaultHeight, percentY)),
     width  |-> defaultWidth,
     height |-> defaultHeight,
     page   |-> PageOfId(pageId)]

\* variant: MovedField clamping with the default size instead of the field's own
MovedFieldDefaultSize(f, pageId, percentX, percentY) ==
    [f EXCEPT !.x = Max(0, Min(100 - defaultWidth, percentX)),
              !.y = Max(0, Min(100 - defaultHeight, percentY)),
              !.page = PageOfId(pageId)]

\* handleDragEnd, placed branch: the updater applied to the dragged field
MovedField(f, pageId, percentX, percentY) ==
    [f EXCEPT !.x = Max(0, Min(100 - f.width, percentX)),
              !.y = Max(0, Min(100 - f.height, percentY)),
              !.page = PageOfId(pageId)]

\* variant: handleDragEnd without the early return on a null over (falls back to page 1)
HandleDragEndAnywhere(prev, active, over, rect, percentX, percentY, newId) ==
    LET target == IF over = <<>> THEN PageId(1) ELSE over
    IN  IF ~rect THEN prev
        ELSE IF active.isTool
             THEN Append(prev, NewField(newId, active.type, target, percentX, percentY))
        ELSE IF active.isPlaced
             THEN [i \in 1..Len(prev) |->
                      IF prev[i].id = active.id
                      THEN MovedField(prev[i], target, percentX, percentY)
                      ELSE prev[i]]
        ELSE prev

\* handleDragEnd: the field list after the event.  over is <<>> (null) or a page
\* id; rect says whether active.rect.current.translated and over.rect exist.
HandleDragEndFields(prev, active, over, rect, percentX, percentY, newId) ==
    IF over = <<>> THEN prev
    ELSE IF ~rect THEN prev
    ELSE IF active.isTool
         THEN Append(prev, NewField(newId, active.type, over, percentX, percentY))
    ELSE IF active.isPlaced
         THEN [i \in 1..Len(prev) |->
                  IF prev[i].id = active.id
                  THEN MovedField(prev[i], over, percentX, percentY)
                  ELSE prev[i]]
    ELSE prev

\* variant: handleResize without the id test
HandleResizeEveryField(prev, id, width, height) ==
    [i \in 1..Len(prev) |-> [prev[i] EXCEPT !.width = width, !.height = height]]

\* handleResize
HandleResizeFields(prev, id, width, height) ==
    [i \in 1..Len(prev) |->
        IF prev[i].id = id
        THEN [prev[i] EXCEPT !.width = width, !.height = height]
        ELSE prev[i]]

\* variant: handleDeleteField with the filter predicate inverted
HandleDeleteKeepsOnly(prev, id) ==
    SelectSeq(prev, LAMBDA f : f.id = id)

\* handleDeleteField
HandleDeleteFields(prev, id) ==
    SelectSeq(prev, LAMBDA f : f.id # id)

\* variant: the resize callback without the minimum width and height
ResizeCallbackNoMinimum(g, deltaWidthPc, deltaHeightPc) ==
    [id     |-> g.id,
     width  |-> Min(100 - g.x, g.startWidthPc + deltaWidthPc),
     height |-> Min(100 - g.y, g.startHeightPc + deltaHeightPc)]

\* PlacedField.onPointerMove, body of the animation-frame callback: g holds what
\* the closure captured at pointer down (id, x, y, startWidthPc, startHeightPc)
ResizeCallback(g, deltaWidthPc, deltaHeightPc) ==
    LET maxWidth  == 100 - g.x
        maxHeight == 100 - g.y
    IN  [id     |-> g.id,
         width  |-> Min(maxWidth, Max(minWidth, g.startWidthPc + deltaWidthPc)),
         height |-> Min(maxHeight, Max(minHeight, g.startHeightPc + deltaHeightPc))]

\* the callbacks of one animation frame, run in the order they were requested
RECURSIVE RunCallbacks(_, _)
RunCallbacks(flds, q) ==
    IF q = <<>> THEN flds
    ELSE RunCallbacks(HandleResizeFields(flds, Head(q).id, Head(q).width, Head(q).height),
                      Tail(q))

\* lines 189-194: the modal before any sign (pdfUrl <<>> is undefined)
ModalClosed ==
    [isOpen |-> FALSE, title |-> "", type |-> "info", content |-> <<>>, pdfUrl |-> <<>>]

ClientInit ==
    /\ signs = <<>>
    /\ modalState = ModalClosed
    /\ fields = <<>>
    /\ nextId = 1
    /\ activeItem = <<>>
    /\ overPageId = <<>>
    /\ listeners = {}
    /\ rafQueue = <<>>
    /\ lastOp = NoOp
    /\ nEvents = 0

\* one more event handled; the server is not involved
Tick ==
    /\ nEvents < MaxEvents
    /\ nEvents' = nEvents + 1
    /\ UNCHANGED svars
    /\ UNCHANGED xvars

\* handleDragStart for a sidebar tool
DragStartTool ==
    /\ Tick
    /\ activeItem = <<>>
    /\ \E t \in DropTypes :
          activeItem' = <<[id |-> 0, type |-> t, isTool |-> TRUE, isPlaced |-> FALSE]>>
    /\ lastOp' = [NoOp EXCEPT !.op = "dragStart"]
    /\ UNCHANGED <<fields, nextId, overPageId, listeners, rafQueue>>

\* handleDragStart for a placed field
DragStartPlaced ==
    /\ Tick
    /\ activeItem = <<>>
    /\ \E i \in 1..Len(fields) :
          /\ activeItem' = <<[id |-> fields[i].id, type |-> fields[i].type,
                              isTool |-> FALSE, isPlaced |-> TRUE]>>
          /\ lastOp' = [NoOp EXCEPT !.op = "dragStart", !.id = fields[i].id]
    /\ UNCHANGED <<fields, nextId, overPageId, listeners, rafQueue>>

\* handleDragMove
DragMove ==
    /\ Tick
    /\ activeItem # <<>>
    /\ \E over \in {<<>>} \cup {PageId(p) : p \in 1..NumPages} :
          overPageId' = over
    /\ lastOp' = [NoOp EXCEPT !.op = "dragMove"]
    /\ UNCHANGED <<fields, nextId, activeItem, listeners, rafQueue>>

\* variant: handleDragEnd returning on a null over before the two resets
DragEndReturnsEarly ==
    /\ Tick
    /\ activeItem # <<>>
    /\ activeItem[1].isTool => nextId <= MaxIds
    /\ \E over \in {<<>>} \cup {PageId(p) : p \in 1..NumPages}, rect \in BOOLEAN,
          pt \in DropPoints \cup {<<0, 0>>} :
          /\ (over = <<>> \/ ~rect) <=> pt = <<0, 0>>
          /\ fields' = HandleDragEndFields(fields, activeItem[1], over, rect,
                                           pt[1], pt[2], nextId)
          /\ nextId' = IF over # <<>> /\ rect /\ activeItem[1].isTool
                       THEN nextId + 1 ELSE nextId
          /\ lastOp' = [op |-> "dragEnd", id |-> activeItem[1].id,
                        over |-> IF over = <<>> THEN 0 ELSE PageOfId(over),
                        rect |-> rect, px |-> pt[1], py |-> pt[2]]
          /\ activeItem' = IF over = <<>> THEN activeItem ELSE <<>>
          /\ overPageId' = IF over = <<>> THEN overPageId ELSE <<>>
    /\ UNCHANGED <<listeners, rafQueue>>

\* handleDragEnd.  The pointer position is read only when both rectangles exist.
DragEnd ==
    /\ Tick
    /\ activeItem # <<>>
    /\ activeItem[1].isTool => nextId <= MaxIds
    /\ \E over \in {<<>>} \cup {PageId(p) : p \in 1..NumPages}, rect \in BOOLEAN,
          pt \in DropPoints \cup {<<0, 0>>} :
          /\ (over = <<>> \/ ~rect) <=> pt = <<0, 0>>
          /\ fields' = HandleDragEndFields(fields, activeItem[1], over, rect,
                                           pt[1], pt[2], nextId)
          /\ nextId' = IF over # <<>> /\ rect /\ activeItem[1].isTool
                       THEN nextId + 1 ELSE nextId
          /\ lastOp' = [op |-> "dragEnd", id |-> activeItem[1].id,
                        over |-> IF over = <<>> THEN 0 ELSE PageOfId(over),
                        rect |-> rect, px |-> pt[1], py |-> pt[2]]
    /\ activeItem' = <<>>
    /\ overPageId' = <<>>
    /\ UNCHANGED <<listeners, rafQueue>>

\* variant: a cancelled drag of a placed field removes the field
DragCancelRemovesField ==
    /\ Tick
    /\ activeItem # <<>>
    /\ activeItem' = <<>>
    /\ overPageId' = <<>>
    /\ lastOp' = [NoOp EXCEPT !.op = "dragCancel"]
    /\ fields' = HandleDeleteFields(fields, activeItem[1].id)
    /\ UNCHANGED <<nextId, listeners, rafQueue>>

\* handleDragCancel
DragCancel ==
    /\ Tick
    /\ activeItem # <<>>
    /\ activeItem' = <<>>
    /\ overPageId' = <<>>
    /\ lastOp' = [NoOp EXCEPT !.op = "dragCancel"]
    /\ UNCHANGED <<fields, nextId, listeners, rafQueue>>

\* PlacedField.onResizePointerDown: the closure captures the props of the render
ResizePointerDown ==
    /\ Tick
    /\ Cardinality(listeners) < MaxListeners
    /\ \E i \in 1..Len(fields) :
          /\ listeners' = listeners \cup
                {[id |-> fields[i].id, x |-> fields[i].x, y |-> fields[i].y,
                  startWidthPc |-> fields[i].width, startHeightPc |-> fields[i].height]}
          /\ lastOp' = [NoOp EXCEPT !.op = "resizeDown", !.id = fields[i].id]
    /\ UNCHANGED <<fields, nextId, activeItem, overPageId, rafQueue>>

\* PlacedField.onPointerMove: requests one animation-frame callback per event
ResizePointerMove ==
    /\ Tick
    /\ Len(rafQueue) < MaxQueue
    /\ \E g \in listeners, d \in ResizeDeltas :
          /\ rafQueue' = Append(rafQueue, ResizeCallback(g, d[1], d[2]))
          /\ lastOp' = [NoOp EXCEPT !.op = "resizeMove", !.id = g.id]
    /\ UNCHANGED <<fields, nextId, activeItem, overPageId, listeners>>

\* PlacedField.onPointerUp: the gesture's listeners are removed
ResizePointerUp ==
    /\ Tick
    /\ \E g \in listeners :
          /\ listeners' = listeners \ {g}
          /\ lastOp' = [NoOp EXCEPT !.op = "resizeUp", !.id = g.id]
    /\ UNCHANGED <<fields, nextId, activeItem, overPageId, rafQueue>>

\* the browser runs the animation-frame callbacks requested so far
AnimationFrame ==
    /\ Tick
    /\ rafQueue # <<>>
    /\ fields' = RunCallbacks(fields, rafQueue)
    /\ rafQueue' = <<>>
    /\ lastOp' = [NoOp EXCEPT !.op = "frame", !.id = rafQueue[Len(rafQueue)].id]
    /\ UNCHANGED <<nextId, activeItem, overPageId, listeners>>

\* PlacedField.handleDelete -> handleDeleteField
DeleteField ==
    /\ Tick
    /\ \E i \in 1..Len(fields) :
          /\ fields' = HandleDeleteFields(fields, fields[i].id)
          /\ lastOp' = [NoOp EXCEPT !.op = "delete", !.id = fields[i].id]
    /\ UNCHANGED <<nextId, activeItem, overPageId, listeners, rafQueue>>

\* no request is being handled by the single invocation
NoRequest ==
    /\ sreq = [fields |-> <<>>, pages |-> <<>>]
    /\ spc = "idle"
    /\ sidx = 1
    /\ marks = <<>>
    /\ sres = <<>>
    /\ req = <<>>
    /\ body = <<>>
    /\ pdfBuffer = <<>>
    /\ originalHash = <<>>
    /\ pdfDoc = <<>>
    /\ disk = {}
    /\ now = 0
    /\ log = <<>>

ServerIdle ==
    /\ NoRequest
    /\ handlers = <<>>

Init == ClientInit /\ ServerIdle

Next ==
    \/ DragStartTool
    \/ DragStartPlaced
    \/ DragMove
    \/ DragEnd
    \/ DragCancel
    \/ ResizePointerDown
    \/ ResizePointerMove
    \/ ResizePointerUp
    \/ AnimationFrame
    \/ DeleteField

Spec == Init /\ [][Next]_vars

-----------------------------------------------------------------------------
(* Claims about the field placement model, checked under Spec *)

\* C1: every field of the list satisfies 0 <= x, 0 <= y, x + width <= 100 and
\* y + height <= 100, after any interleaving of place, move, resize and delete.
C1_FieldsWithinPage ==
    \A i \in 1..Len(fields) :
        /\ 0 <= fields[i].x
        /\ 0 <= fields[i].y
        /\ fields[i].x + fields[i].width <= 100
        /\ fields[i].y + fields[i].height <= 100

\* the step is a drop (handleDragEnd) over a page, with both rectangles known
DropOnPage == lastOp'.op = "dragEnd" /\ lastOp'.over # 0 /\ lastOp'.rect /\ activeItem # <<>>

\* C2: a tool drop on a page appends exactly one field, 20 x 5, at
\* x = max(0, min(80, percentX)), y = max(0, min(95, percentY)), of the tool's
\* type, on the page dropped on; the fields already there are unchanged.
C2_ToolDropAppends ==
    [][(DropOnPage /\ activeItem[1].isTool) =>
          /\ Len(fields') = Len(fields) + 1
          /\ SubSeq(fields', 1, Len(fields)) = fields
          /\ LET f == fields'[Len(fields')]
             IN  /\ f.id \notin Ids(fields)
                 /\ f.width = 20
                 /\ f.height = 5
                 /\ f.x = Max(0, Min(80, lastOp'.px))
                 /\ f.y = Max(0, Min(95, lastOp'.py))
                 /\ f.type = activeItem[1].type
                 /\ f.page = lastOp'.over]_vars

\* a second field was dropped left of and above the page: it sits at (0, 0)
C2_Witness ==
    /\ lastOp.op = "dragEnd" /\ lastOp.id = 0 /\ lastOp.over = 2 /\ lastOp.rect
    /\ lastOp.px < 0 /\ lastOp.py < 0
    /\ Len(fields) = 2
    /\ fields[2].x = 0 /\ fields[2].y = 0 /\ fields[2].page = 2

\* C3: dropping a placed field on a page clamps its position with the width and
\* height it has when the update is applied, sets its page to the page dropped
\* on, and leaves its width, height, id and type unchanged.
C3_MoveClampsToCurrentSize ==
    [][(DropOnPage /\ activeItem[1].isPlaced) =>
          /\ Len(fields') = Len(fields)
          /\ \A i \in 1..Len(fields) :
                fields[i].id = activeItem[1].id =>
                   /\ fields'[i].x = Max(0, Min(100 - fields[i].width, lastOp'.px))
                   /\ fields'[i].y = Max(0, Min(100 - fields[i].height, lastOp'.py))
                   /\ fields'[i].page = lastOp'.over
                   /\ fields'[i].width = fields[i].width
                   /\ fields'[i].height = fields[i].height
                   /\ fields'[i].id = fields[i].id
                   /\ fields'[i].type = fields[i].type]_vars

\* a field resized to 5 x 2 was dropped beyond the corner of the other page
C3_Witness ==
    /\ lastOp.op = "dragEnd" /\ lastOp.id >= 1 /\ lastOp.rect /\ lastOp.px > 100
    /\ \E i \in 1..Len(fields) :
          /\ fields[i].id = lastOp.id
          /\ fields[i].width = 5 /\ fields[i].x = 95
          /\ fields[i].height = 2 /\ fields[i].y = 98
          /\ fields[i].page = lastOp.over /\ lastOp.over = 2

\* C4: every field has width >= 5 and height >= 2.
C4_MinimumSize ==
    \A i \in 1..Len(fields) : fields[i].width >= 5 /\ fields[i].height >= 2

\* a shrinking resize was applied to a field that sits in the far corner
C4_Witness ==
    /\ lastOp.op = "frame"
    /\ \E i \in 1..Len(fields) :
          /\ fields[i].id = lastOp.id
          /\ fields[i].x = 80 /\ fields[i].y = 95
          /\ fields[i].width = 5 /\ fields[i].height = 2

\* C5: a resize changes only the width and height of the field resized.
C5_ResizeFrame ==
    [][lastOp'.op = "frame" =>
          /\ Len(fields') = Len(fields)
          /\ \A i \in 1..Len(fields) :
                /\ fields'[i].x = fields[i].x
                /\ fields'[i].y = fields[i].y
                /\ fields'[i].page = fields[i].page
                /\ fields'[i].id = fields[i].id
                /\ fields'[i].type = fields[i].type
                /\ (\A k \in 1..Len(rafQueue) : rafQueue[k].id # fields[i].id)
                      => fields'[i] = fields[i]]_vars

\* one of two fields was resized
C5_Witness ==
    /\ lastOp.op = "frame"
    /\ Len(fields) = 2
    /\ \E i, j \in 1..2 :
          /\ fields[i].id = lastOp.id /\ fields[i].width # 20
          /\ fields[j].id # lastOp.id /\ fields[j].width = 20

\* C6: a delete removes the field with that id and nothing else, keeps the order
\* of the others, and the id never comes back: a resize callback or a drop update
\* for an id that is no longer in the list changes nothing.
C6_DeleteRemoves ==
    [][/\ lastOp'.op = "delete" =>
             \E k \in 1..Len(fields) :
                /\ fields[k].id = lastOp'.id
                /\ fields' = SubSeq(fields, 1, k - 1) \o SubSeq(fields, k + 1, Len(fields))
                /\ lastOp'.id \notin Ids(fields')
       /\ \A id \in 1..MaxIds : (id < nextId /\ id \notin Ids(fields)) => id \notin Ids(fields')
       /\ (lastOp'.op = "frame" /\ \A k \in 1..Len(rafQueue) : rafQueue[k].id \notin Ids(fields))
             => fields' = fields
       /\ (DropOnPage /\ activeItem[1].isPlaced /\ activeItem[1].id \notin Ids(fields))
             => fields' = fields]_vars

\* a resize callback ran for a field that was deleted before the frame
C6_Witness ==
    /\ lastOp.op = "frame"
    /\ lastOp.id \in 1..(nextId - 1)
    /\ lastOp.id \notin Ids(fields)

\* C7: a drag that is cancelled, or that ends over no page, leaves the field list
\* as it was; so do the start of a drag and the moves of the drag.
C7_AbortedDragKeepsFields ==
    [][(\/ lastOp'.op \in {"dragCancel", "dragStart", "dragMove"}
        \/ lastOp'.op = "dragEnd" /\ lastOp'.over = 0)
          => fields' = fields]_vars

\* a placed field was dragged and released over no page
C7_Witness ==
    /\ lastOp.op = "dragEnd" /\ lastOp.over = 0 /\ lastOp.rect
    /\ lastOp.id \in Ids(fields)

-----------------------------------------------------------------------------
(* Server: signPdf *)

\* fields of one sign request
MaxReqFields == 2

\* a length of p PDF points, in the unit of the server model (1/200 point)
Pt(p) == 200 * p

\* field.content: undefined, "", or a string; a data URI carries the image it encodes
\* (ok: the embed call accepts it; iw x ih: its pixel size)
NoContent  == [kind |-> "none",  ok |-> FALSE, iw |-> 0,   ih |-> 0]
PngContent == [kind |-> "png",   ok |-> TRUE,  iw |-> 200, ih |-> 100]
BadPng     == [kind |-> "png",   ok |-> FALSE, iw |-> 0,   ih |-> 0]
GifContent == [kind |-> "other", ok |-> FALSE, iw |-> 0,   ih |-> 0]
TextContent == [kind |-> "text", ok |-> FALSE, iw |-> 0,   ih |-> 0]
JpgContent == [kind |-> "jpeg",  ok |-> TRUE,  iw |-> 800, ih |-> 100]
TallPng    == [kind |-> "png",   ok |-> TRUE,  iw |-> 100, ih |-> 200]
BadJpg     == [kind |-> "jpeg",  ok |-> FALSE, iw |-> 0,   ih |-> 0]
EmptyContent == [kind |-> "empty", ok |-> FALSE, iw |-> 0, ih |-> 0]

ReqField(t, x, y, w, h, p, c) ==
    [type |-> t, x |-> x, y |-> y, width |-> w, height |-> h, page |-> p, content |-> c]

\* the fields a request is built from in the runs explored
ReqFieldSet ==
    {ReqField(t, 10, 10, 20, 5, 1, NoContent) : t \in FieldTypes}
    \cup {ReqField(t, 40, 60, 30, 20, 1, NoContent) : t \in {"date", "radio"}}
    \cup {ReqField(t, 10, 10, 20, 5, p, NoContent) : t \in {"text", "signature"}, p \in {0, 2, 99}}
    \cup {ReqField("text", 10, 10, 20, 5, p, NoContent) : p \in {-1, 3}}
    \cup {ReqField("signature", 10, 10, 20, 5, 1, PngContent),
          ReqField("signature", 10, 10, 20, 5, 1, BadPng),
          ReqField("image", 10, 10, 20, 5, 1, GifContent),
          ReqField("text", 10, 10, 20, 5, 1, TextContent)}
    \cup {ReqField("image", 10, 10, 20, 5, 1, JpgContent),
          ReqField("signature", 10, 10, 20, 5, 2, TallPng),
          ReqField("image", 10, 10, 20, 5, 1, BadJpg),
          ReqField("text", 10, 10, 20, 5, 1, EmptyContent)}

RECURSIVE SeqsUpTo(_, _)
SeqsUpTo(S, n) ==
    IF n = 0 THEN {<<>>}
    ELSE LET shorter == SeqsUpTo(S, n - 1)
         IN  shorter \cup {Append(q, e) : q \in shorter, e \in S}

\* the documents of the runs explored: the page sizes, in points, of each page
Docs == {<< <<600, 800>> >>, << <<600, 800>>, <<600, 400>> >>}

\* variant: the page check with > for >=
SkipsPageOffByOne(field, pages) ==
    field.page - 1 > Len(pages)

\* line 70: the field is skipped
SkipsPage(field, pages) ==
    LET pageIndex == field.page - 1
    IN  pageIndex >= Len(pages)

\* pages[pageIndex]: <<>> when the array has no such element (undefined)
PageAt(pages, pageIndex) ==
    IF pageIndex \in 0..(Len(pages) - 1) THEN <<pages[pageIndex + 1]>> ELSE <<>>

\* variant: the box without the height subtracted from y
FieldBoxFromTop(field, size) ==
    [x      |-> (field.x * Pt(size[1])) \div 100,
     y      |-> Pt(size[2]) - ((field.y * Pt(size[2])) \div 100),
     width  |-> (field.width * Pt(size[1])) \div 100,
     height |-> (field.height * Pt(size[2])) \div 100]

\* lines 75-78: x, y, wPoints, hPoints
FieldBox(field, size) ==
    LET pageWidth  == Pt(size[1])
        pageHeight == Pt(size[2])
        hPoints    == (field.height * pageHeight) \div 100
        wPoints    == (field.width * pageWidth) \div 100
    IN  [x      |-> (field.x * pageWidth) \div 100,
         y      |-> pageHeight - ((field.y * pageHeight) \div 100) - hPoints,
         width  |-> wPoints,
         height |-> hPoints]

\* PDFImage.scaleToFit of pdf-lib
ScaleToFit(iw, ih, width, height) ==
    IF width * ih <= height * iw
    THEN [width |-> width, height |-> (ih * width) \div iw]
    ELSE [width |-> (iw * height) \div ih, height |-> height]

\* variant: every PNG or JPEG data URI yields an image, decodable or not
EmbedImageNeverThrows(content) ==
    IF content.kind \in {"png", "jpeg"} THEN <<[content EXCEPT !.iw = 200, !.ih = 100]>> ELSE <<>>

\* lines 84-92: the image embedded for the content, <<>> when there is none
EmbedImage(content) ==
    IF content.kind \in {"png", "jpeg"} /\ content.ok THEN <<content>> ELSE <<>>

\* variant: content is taken as present whatever it is
HasContentAlways(field) == TRUE

\* lines 81, 119: if (field.content)
HasContent(field) == field.content.kind \notin {"none", "empty"}

\* variant: no call passes a fill colour
MarkOutlineOnly(kind, filled, i, pageNo, box, x, y, w, h) ==
    [kind |-> kind, filled |-> FALSE, opacity |-> 100,
     field |-> i, page |-> pageNo, box |-> box,
     x |-> x, y |-> y, width |-> w, height |-> h]

\* one drawing call: filled marks the calls that pass color with opacity 0.1
\* (in percent below), the others pass a border only
Mark(kind, filled, i, pageNo, box, x, y, w, h) ==
    [kind |-> kind, filled |-> filled, opacity |-> IF filled THEN 10 ELSE 100,
     field |-> i, page |-> pageNo, box |-> box,
     x |-> x, y |-> y, width |-> w, height |-> h]

\* variant: the image stretched to the box
ImagePlacementStretched(image, b) ==
    [x |-> b.x, y |-> b.y, width |-> b.width, height |-> b.height]

\* lines 95-104: where the embedded image is drawn in the box b
ImagePlacement(image, b) ==
    LET imgDims == ScaleToFit(image.iw, image.ih, b.width, b.height)
        xOffset == (b.width - imgDims.width) \div 2
        yOffset == (b.height - imgDims.height) \div 2
    IN  [x |-> b.x + xOffset, y |-> b.y + yOffset,
         width |-> imgDims.width, height |-> imgDims.height]

\* variant: the radius from the longer side of the box
RadioCircleLongerSide(b) ==
    [centerX |-> b.x + (b.width \div 2), centerY |-> b.y + (b.height \div 2),
     radius |-> Max(b.width, b.height) \div 2]

\* lines 136-138: centre and radius of the circle of a radio field
RadioCircle(b) ==
    [centerX |-> b.x + (b.width \div 2),
     centerY |-> b.y + (b.height \div 2),
     radius  |-> Min(b.width, b.height) \div 2]

\* lines 80-150: the drawing calls made for field number i on page pageNo
DrawField(field, i, pageNo, size) ==
    LET b == FieldBox(field, size)
        hasContent == HasContent(field)
    IN  IF field.type \in {"signature", "image"}
        THEN IF hasContent
             THEN LET image == EmbedImage(field.content)
                  IN  IF image = <<>> THEN <<>>
                      ELSE LET at == ImagePlacement(image[1], b)
                           IN  <<Mark("image", FALSE, i, pageNo, b, at.x, at.y,
                                      at.width, at.height)>>
             ELSE <<Mark("rectangle", FALSE, i, pageNo, b, b.x, b.y, b.width, b.height)>>
        ELSE IF field.type = "text"
        THEN <<Mark("rectangle", FALSE, i, pageNo, b, b.x, b.y, b.width, b.height)>>
             \o (IF hasContent
                 THEN <<Mark("text", FALSE, i, pageNo, b, b.x + Pt(5),
                             b.y + b.height - Pt(15), 0, 0)>>
                 ELSE <<>>)
        ELSE IF field.type = "date"
        THEN <<Mark("rectangle", TRUE, i, pageNo, b, b.x, b.y, b.width, b.height)>>
        ELSE IF field.type = "radio"
        THEN LET c == RadioCircle(b)
             IN  <<Mark("ellipse", TRUE, i, pageNo, b, c.centerX, c.centerY,
                        c.radius, c.radius)>>
        ELSE <<>>

(* bytes, encodings and the pdf-lib document *)

\* a PDF file: its page sizes, the drawing calls it holds and its info dates
\* (<<>> is no date); valid is FALSE for bytes PDFDocument.load cannot parse
PdfFile(pages) ==
    [valid |-> TRUE, pages |-> pages, marks |-> <<>>, created |-> <<>>, modified |-> <<>>]

CorruptPdf ==
    [valid |-> FALSE, pages |-> <<>>, marks |-> <<>>, created |-> <<>>, modified |-> <<>>]

\* sample.pdf as written by generate_sample.ts: one A4 page (whole points)
SamplePdf ==
    [valid |-> TRUE, pages |-> << <<595, 842>> >>, marks |-> <<>>,
     created |-> <<0>>, modified |-> <<0>>]

\* lines 51-53: PDFDocument.create(), addPage([600, 400]), save() at time t
BlankPdf(t) ==
    [valid |-> TRUE, pages |-> << <<600, 400>> >>, marks |-> <<>>,
     created |-> <<t>>, modified |-> <<t>>]

\* the base64 text of some bytes; pdfBase64 is such a text, "" or undefined
Base64Encode(bytes) == [kind |-> "base64", bytes |-> bytes]
EmptyPdfBase64 == [kind |-> "empty", bytes |-> CorruptPdf]
NoPdfBase64 == [kind |-> "undefined", bytes |-> CorruptPdf]

\* line 34: if (pdfBase64)
Truthy(pdfBase64) == pdfBase64.kind = "base64"

\* line 36: Buffer.from(pdfBase64, 'base64')
Base64Decode(pdfBase64) == pdfBase64.bytes

\* lines 58, 158: createHash('sha256').update(bytes).digest('hex')
Sha256(bytes) == [sha256 |-> bytes]

\* line 165: the data URI of the signed document
DataUri(base64) == [mime |-> "application/pdf", base64 |-> base64]

\* variant: every buffer loads
LoadsAnything(bytes) == TRUE

\* line 61: PDFDocument.load(pdfBuffer) does not throw
Loads(bytes) == bytes.valid

\* line 61: the document PDFDocument.load returns at time t; load refreshes the
\* info dictionary (updateMetadata is left at its default)
LoadedDoc(bytes, t) ==
    [bytes EXCEPT !.modified = <<t>>,
                  !.created = IF @ = <<>> THEN <<t>> ELSE @]

\* line 154: pdfDoc.save() after the drawing calls ms
SavePdf(doc, ms) == [doc EXCEPT !.marks = @ \o ms]

\* req.body: an object with pdfBase64 and (hasFields) fields, or a string
BodyObject(pdfBase64, fl) ==
    [kind |-> "object", pdfBase64 |-> pdfBase64, fields |-> fl, hasFields |-> TRUE]

BodyNoFields(pdfBase64) ==
    [kind |-> "object", pdfBase64 |-> pdfBase64, fields |-> <<>>, hasFields |-> FALSE]

\* a string body: json is <<v>> when the string is the JSON text of v, <<>> when
\* JSON.parse throws on it
JsonString(v) == [kind |-> "string", json |-> <<v>>]
GarbageString == [kind |-> "string", json |-> <<>>]

\* variant: a string body is never parsed
ParsedBodyStringsUnparsed(b) ==
    IF b.kind = "object"
    THEN [pdfBase64 |-> b.pdfBase64, fields |-> b.fields, hasFields |-> b.hasFields]
    ELSE [pdfBase64 |-> NoPdfBase64, fields |-> <<>>, hasFields |-> FALSE]

\* lines 10-21: body after the best-effort JSON.parse, destructured
ParsedBody(b) ==
    LET parsed == IF b.kind = "string" /\ b.json # <<>> THEN b.json[1] ELSE b
    IN  IF parsed.kind = "object"
        THEN [pdfBase64 |-> parsed.pdfBase64, fields |-> parsed.fields,
              hasFields |-> parsed.hasFields]
        ELSE [pdfBase64 |-> NoPdfBase64, fields |-> <<>>, hasFields |-> FALSE]

\* possiblePaths, by position; every sample.pdf found holds the generated sample
possiblePaths == {1, 2, 3}
DiskStates == {{}, {1}, {2, 3}}

\* variant: the fallback never reads the disk
FallbackPdfBlankOnly(d, t) == BlankPdf(t)

\* lines 39-54: the bytes used when the request carries no PDF
FallbackPdf(d, t) ==
    LET found == {q \in possiblePaths : q \in d}
    IN  IF found # {} THEN SamplePdf ELSE BlankPdf(t)

\* lines 163-168
SuccessResponse(url, oHash, sHash) ==
    [status |-> 200, success |-> TRUE, url |-> url, originalHash |-> oHash,
     signedHash |-> sHash]

\* lines 181-184
ErrorResponse(details) ==
    [status |-> 500, success |-> FALSE, error |-> "Failed to sign PDF",
     details |-> details]

\* variant: the unsigned source bytes are returned and hashed
SignedResponseOfSource(doc, ms, buffer, oHash) ==
    SuccessResponse(DataUri(Base64Encode(buffer)), oHash, Sha256(buffer))

\* lines 154-168: the response built from the saved document
SignedResponse(doc, ms, buffer, oHash) ==
    LET signedPdfBytes == SavePdf(doc, ms)
        signedPdfBase64 == Base64Encode(signedPdfBytes)
        signedHash == Sha256(signedPdfBytes)
    IN  SuccessResponse(DataUri(signedPdfBase64), oHash, signedHash)

\* the requests of the runs explored
SourcePdfs == {Base64Encode(PdfFile(d)) : d \in Docs}
OtherPdfs == {Base64Encode(CorruptPdf), NoPdfBase64, EmptyPdfBase64}

FewFields ==
    {ReqField("text", 10, 10, 20, 5, 1, TextContent),
     ReqField("signature", 10, 10, 20, 5, 1, PngContent),
     ReqField("text", 10, 10, 20, 5, 0, NoContent)}

Bodies ==
    {BodyObject(p, fl) : p \in SourcePdfs, fl \in SeqsUpTo(ReqFieldSet, MaxReqFields)}
    \cup {BodyObject(p, fl) : p \in OtherPdfs, fl \in SeqsUpTo(FewFields, MaxReqFields)}
    \cup {BodyNoFields(p) : p \in SourcePdfs \cup OtherPdfs}
    \cup {JsonString(BodyObject(p, fl)) :
             p \in {Base64Encode(PdfFile(<< <<600, 800>> >>)), NoPdfBase64},
             fl \in SeqsUpTo(FewFields, 1)}
    \cup {GarbageString}

\* the locals of signPdf before the handler has run
HandlerStart ==
    /\ sreq = [fields |-> <<>>, pages |-> <<>>]
    /\ spc = "parse"
    /\ sidx = 1
    /\ marks = <<>>
    /\ sres = <<>>
    /\ body = <<>>
    /\ pdfBuffer = <<>>
    /\ originalHash = <<>>
    /\ pdfDoc = <<>>

ServerInit ==
    /\ req \in {[body |-> b] : b \in Bodies}
    /\ disk \in DiskStates
    /\ now = 0
    /\ log = <<>>
    /\ handlers = <<>>
    /\ HandlerStart

\* lines 10-21: a string body is parsed, pdfBase64 and fields are taken from it
ParseBody ==
    /\ spc = "parse"
    /\ body' = <<ParsedBody(req.body)>>
    /\ spc' = "start"
    /\ UNCHANGED <<sreq, sidx, marks, sres, req, pdfBuffer, originalHash, pdfDoc,
                   disk, now, log>>
    /\ UNCHANGED cvars
    /\ UNCHANGED xvars

\* lines 32-66: the source bytes are chosen and hashed, the document is loaded,
\* fieldList is taken from the body
LoadPdf ==
    /\ spc = "start"
    /\ LET buffer == IF Truthy(body[1].pdfBase64)
                     THEN Base64Decode(body[1].pdfBase64)
                     ELSE FallbackPdf(disk, now)
       IN  /\ pdfBuffer' = <<buffer>>
           /\ originalHash' = <<Sha256(buffer)>>
           /\ IF Loads(buffer)
              THEN /\ pdfDoc' = <<LoadedDoc(buffer, now)>>
                   /\ sreq' = [fields |-> IF body[1].hasFields THEN body[1].fields ELSE <<>>,
                               pages  |-> buffer.pages]
                   /\ spc' = "loop"
                   /\ UNCHANGED sres
              ELSE \* PDFDocument.load throws; the catch answers 500
                   /\ sres' = Append(sres, ErrorResponse("load"))
                   /\ spc' = "done"
                   /\ UNCHANGED <<pdfDoc, sreq>>
    /\ UNCHANGED <<sidx, marks, req, body, disk, now, log>>
    /\ UNCHANGED cvars
    /\ UNCHANGED xvars

\* lines 68-151: one iteration of the loop over fieldList
ProcessField ==
    /\ spc = "loop"
    /\ sidx <= Len(sreq.fields)
    /\ LET field == sreq.fields[sidx]
           pageIndex == field.page - 1
           page == PageAt(sreq.pages, pageIndex)
       IN  IF SkipsPage(field, sreq.pages)
           THEN /\ sidx' = sidx + 1
                /\ UNCHANGED <<spc, marks, sres>>
           ELSE IF page = <<>>
           THEN \* page.getSize() on undefined throws; the catch answers 500
                /\ sres' = Append(sres, ErrorResponse("getSize"))
                /\ spc' = "done"
                /\ UNCHANGED <<sidx, marks>>
           ELSE /\ marks' = marks \o DrawField(field, sidx, pageIndex + 1, page[1])
                /\ sidx' = sidx + 1
                /\ UNCHANGED <<spc, sres>>
    /\ UNCHANGED <<sreq, req, body, pdfBuffer, originalHash, pdfDoc, disk, now, log>>
    /\ UNCHANGED cvars
    /\ UNCHANGED xvars

\* lines 153-177: the document is saved and the success response is sent
Respond ==
    /\ spc = "loop"
    /\ sidx > Len(sreq.fields)
    /\ sres' = Append(sres, SignedResponse(pdfDoc[1], marks, pdfBuffer[1], originalHash[1]))
    /\ spc' = "done"
    /\ UNCHANGED <<sreq, sidx, marks, req, body, pdfBuffer, originalHash, pdfDoc,
                   disk, now, log>>
    /\ UNCHANGED cvars
    /\ UNCHANGED xvars

ServerNext ==
    \/ ParseBody
    \/ LoadPdf
    \/ ProcessField
    \/ Respond

ServerSpecInit == ClientInit /\ ServerInit

ServerSpec == ServerSpecInit /\ [][ServerNext]_vars

(* one request after another *)

\* requests answered in one run
MaxRequests == 2

ResignBodies ==
    {BodyObject(p, fl) :
        p \in {Base64Encode(PdfFile(<< <<600, 800>> >>)), Base64Encode(CorruptPdf)},
        fl \in SeqsUpTo({ReqField("text", 10, 10, 20, 5, 1, TextContent),
                         ReqField("signature", 10, 10, 20, 5, 1, PngContent)}, 1)}

ResignInit ==
    /\ ClientInit
    /\ req \in {[body |-> b] : b \in ResignBodies}
    /\ disk = {}
    /\ now = 0
    /\ log = <<>>
    /\ handlers = <<>>
    /\ HandlerStart

\* the handler is invoked for the next request; the clock may have advanced
NextRequest ==
    /\ spc = "done"
    /\ Len(log) + 1 < MaxRequests
    /\ log' = Append(log, [body |-> req.body, response |-> sres[1]])
    /\ \E b \in ResignBodies : req' = [body |-> b]
    /\ \E t \in {now, now + 1} : now' = t
    /\ sreq' = [fields |-> <<>>, pages |-> <<>>]
    /\ spc' = "parse"
    /\ sidx' = 1
    /\ marks' = <<>>
    /\ sres' = <<>>
    /\ body' = <<>>
    /\ pdfBuffer' = <<>>
    /\ originalHash' = <<>>
    /\ pdfDoc' = <<>>
    /\ UNCHANGED disk
    /\ UNCHANGED cvars
    /\ UNCHANGED xvars

ResignNext ==
    \/ ParseBody
    \/ LoadPdf
    \/ ProcessField
    \/ Respond
    \/ NextRequest

ResignSpec == ResignInit /\ [][ResignNext]_vars

-----------------------------------------------------------------------------
(* Claims about the sign handler, checked under ServerSpec *)

\* the page count of the request's document
PageCount == Len(sreq.pages)

C9_PageBeyondCountSkipped ==
    /\ \A k \in 1..Len(marks) : sreq.fields[marks[k].field].page <= PageCount
    /\ \A i \in 1..Len(sreq.fields) :
          (i < sidx /\ sreq.fields[i].page \in 1..PageCount)
             => LET f == sreq.fields[i]
                    drawn == DrawField(f, i, f.page, sreq.pages[f.page])
                IN  \A j \in 1..Len(drawn) : \E k \in 1..Len(marks) : marks[k] = drawn[j]
    /\ (spc = "done" /\ pdfDoc # <<>>
            /\ \A i \in 1..Len(sreq.fields) : sreq.fields[i].page >= 1)
          => /\ Len(sres) = 1 /\ sres[1].success
             /\ sidx = Len(sreq.fields) + 1

\* the first field is beyond the page count, the second was drawn, the answer is success
C9_Witness ==
    /\ spc = "done"
    /\ sres # <<>> /\ sres[1].success
    /\ Len(sreq.fields) = 2
    /\ sreq.fields[1].page > PageCount
    /\ sreq.fields[2].page \in 1..PageCount
    /\ \E k \in 1..Len(marks) : marks[k].field = 2
    /\ \A k \in 1..Len(marks) : marks[k].field # 1

\* C10: a field whose page number is 0 or negative is skipped like a page number
\* beyond the page count: nothing is drawn for it, the remaining fields are
\* processed and the request ends with the success response.
C10_LowPageSkipped ==
    (spc = "done" /\ \E i \in 1..Len(sreq.fields) : sreq.fields[i].page < 1)
       => /\ Len(sres) = 1 /\ sres[1].success
          /\ sidx = Len(sreq.fields) + 1
          /\ \A k \in 1..Len(marks) : sreq.fields[marks[k].field].page >= 1

\* the drawing calls made for field number i
MarksOf(i) == SelectSeq(marks, LAMBDA m : m.field = i)

\* field number i has been through the loop body and is on an existing page
Processed(i) == i < sidx /\ sreq.fields[i].page \in 1..PageCount

\* the content of the field is there, and is no PNG or JPEG data URI or is one
\* that the embed call rejects
Unembeddable(f) ==
    /\ f.content.kind \notin {"none", "empty"}
    /\ (f.content.kind \notin {"png", "jpeg"} \/ ~f.content.ok)

\* C11: for a signature or image field whose content is not a PNG or JPEG data
\* URI, or whose embedding throws, nothing is drawn (no image, no placeholder),
\* the field does not end the request, the fields after it are processed, and a
\* request whose fields all have a page number >= 1 ends with the success response.
C11_UnembeddableImageSkipped ==
    \A i \in 1..Len(sreq.fields) :
        LET f == sreq.fields[i]
        IN  (f.type \in {"signature", "image"} /\ Unembeddable(f))
               => /\ MarksOf(i) = <<>>
                  /\ (spc = "done" /\ ~sres[1].success) => sidx # i
                  /\ \A j \in (i + 1)..Len(sreq.fields) :
                        Processed(j) =>
                           MarksOf(j) = DrawField(sreq.fields[j], j, sreq.fields[j].page,
                                                  sreq.pages[sreq.fields[j].page])
                  /\ (spc = "done" /\ \A j \in 1..Len(sreq.fields) : sreq.fields[j].page >= 1)
                        => Len(sres) = 1 /\ sres[1].success /\ sidx = Len(sreq.fields) + 1

\* a signature whose PNG cannot be embedded left no mark, the field after it was
\* drawn and the answer is success
C11_Witness ==
    /\ spc = "done"
    /\ sres[1].success
    /\ Len(sreq.fields) = 2
    /\ sreq.fields[1].type = "signature"
    /\ sreq.fields[1].content = BadPng
    /\ sreq.fields[1].page \in 1..PageCount
    /\ MarksOf(1) = <<>>
    /\ MarksOf(2) # <<>>

\* C12: for every processed field on an existing page: a signature or image with
\* embeddable content has exactly one mark, an image; a signature or image
\* without content exactly one, an unfilled rectangle outline; a date exactly one,
\* a filled rectangle of low opacity; a radio exactly one, a filled circle of low
\* opacity; every mark is on the page its field references.
C12_MarkKindByType ==
    /\ \A k \in 1..Len(marks) : marks[k].page = sreq.fields[marks[k].field].page
    /\ \A i \in 1..Len(sreq.fields) :
          Processed(i) =>
             LET f == sreq.fields[i]
                 ms == MarksOf(i)
                 embeddable == f.content.kind \in {"png", "jpeg"} /\ f.content.ok
                 absent == f.content.kind \in {"none", "empty"}
             IN  /\ (f.type \in {"signature", "image"} /\ embeddable)
                       => Len(ms) = 1 /\ ms[1].kind = "image"
                 /\ (f.type \in {"signature", "image"} /\ absent)
                       => /\ Len(ms) = 1 /\ ms[1].kind = "rectangle"
                          /\ ~ms[1].filled /\ ms[1].opacity = 100
                 /\ f.type = "date"
                       => /\ Len(ms) = 1 /\ ms[1].kind = "rectangle"
                          /\ ms[1].filled /\ ms[1].opacity < 50
                 /\ f.type = "radio"
                       => /\ Len(ms) = 1 /\ ms[1].kind = "ellipse"
                          /\ ms[1].width = ms[1].height
                          /\ ms[1].filled /\ ms[1].opacity < 50

\* a date field and an image field with a JPEG were drawn, one mark each
C12_Witness ==
    /\ spc = "done"
    /\ Len(sreq.fields) = 2
    /\ sreq.fields[1].type = "date"
    /\ sreq.fields[2].type = "image"
    /\ Len(marks) = 2
    /\ marks[1].kind = "rectangle" /\ marks[1].filled
    /\ marks[2].kind = "image"

\* C13: a processed text field on an existing page has exactly one outlined
\* rectangle, the field's box; it has one text mark besides, at (x + 5,
\* y + hPoints - 15), exactly when its content is present and non-empty; without
\* content the outline is its only mark.
C13_TextOutlineAndText ==
    \A i \in 1..Len(sreq.fields) :
        (Processed(i) /\ sreq.fields[i].type = "text") =>
           LET f == sreq.fields[i]
               ms == MarksOf(i)
               present == f.content.kind \notin {"none", "empty"}
           IN  /\ Len(ms) >= 1
               /\ ms[1].kind = "rectangle" /\ ~ms[1].filled
               /\ ms[1].x = ms[1].box.x /\ ms[1].y = ms[1].box.y
               /\ ms[1].width = ms[1].box.width /\ ms[1].height = ms[1].box.height
               /\ Len(ms) = IF present THEN 2 ELSE 1
               /\ present => /\ ms[2].kind = "text"
                             /\ ms[2].x = ms[2].box.x + Pt(5)
                             /\ ms[2].y = ms[2].box.y + ms[2].box.height - Pt(15)

\* a text field with content (outline and text) and one with empty content
\* (outline only) were drawn
C13_Witness ==
    /\ spc = "done"
    /\ Len(sreq.fields) = 2
    /\ sreq.fields[1].type = "text" /\ sreq.fields[1].content = TextContent
    /\ sreq.fields[2].type = "text" /\ sreq.fields[2].content = EmptyContent
    /\ Len(MarksOf(1)) = 2
    /\ Len(MarksOf(2)) = 1

SourceBytes ==
    LET b == ParsedBody(req.body)
    IN  IF Truthy(b.pdfBase64) THEN Base64Decode(b.pdfBase64) ELSE FallbackPdf(disk, now)

\* the request runs into a failure that is not handled silently: bytes that do
\* not load, or a field whose page has no entry in pages (C10)
RequestFails ==
    LET b == ParsedBody(req.body)
    IN  \/ ~SourceBytes.valid
        \/ b.hasFields /\ \E i \in 1..Len(b.fields) : b.fields[i].page < 1

C17_SameRequestSameHashes ==
    spc = "done" =>
       \A k \in 1..Len(log) :
           (/\ log[k].body = req.body
            /\ Truthy(ParsedBody(req.body).pdfBase64)
            /\ log[k].response.success
            /\ sres[1].success)
              => /\ log[k].response.signedHash = sres[1].signedHash
                 /\ log[k].response.originalHash = sres[1].originalHash

\* C18: in a successful request, originalHash is the SHA-256 of the source
\* bytes, which hold none of the marks and are the request's PDF whatever the
\* field list is; it is taken before the first field is applied; signedHash is
\* the SHA-256 of the bytes saved after every field of the list went through the
\* loop, holding every mark drawn; the url encodes those same bytes.
C18_HashesAndUrl ==
    /\ originalHash # <<>> =>
          /\ originalHash[1] = Sha256(pdfBuffer[1])
          /\ pdfBuffer[1] = SourceBytes
    /\ marks # <<>> => originalHash # <<>>
    /\ (spc = "done" /\ sres[1].success) =>
          LET r == sres[1]
              signed == r.signedHash.sha256
          IN  /\ r.originalHash = Sha256(SourceBytes)
              /\ SourceBytes.marks = <<>>
              /\ sidx = Len(sreq.fields) + 1
              /\ signed.marks = marks
              /\ signed.pages = SourceBytes.pages
              /\ \A i \in 1..Len(sreq.fields) :
                    sreq.fields[i].page \in 1..PageCount =>
                       LET f == sreq.fields[i]
                           drawn == DrawField(f, i, f.page, sreq.pages[f.page])
                       IN  \A j \in 1..Len(drawn) :
                              \E k \in 1..Len(signed.marks) : signed.marks[k] = drawn[j]
              /\ r.signedHash = Sha256(signed)
              /\ Base64Decode(r.url.base64) = signed

\* a request with a PDF and a field that was drawn succeeded; the hashes differ
C18_Witness ==
    /\ spc = "done"
    /\ sres[1].success
    /\ Truthy(body[1].pdfBase64)
    /\ marks # <<>>
    /\ sres[1].signedHash # sres[1].originalHash
    /\ sres[1].signedHash.sha256.marks = marks

\* C19: a string body that is valid JSON is handled as the object it encodes:
\* pdfBase64 and fields are those of the object, and so are the source bytes and
\* the field list; a string body that is not valid JSON is not rejected: the
\* handler goes on with no pdfBase64 and no fields, on the fallback document,
\* and ends with the success response.
C19_StringBodyParsed ==
    (req.body.kind = "string" /\ body # <<>>) =>
       IF req.body.json # <<>>
       THEN LET v == req.body.json[1]
            IN  /\ body[1].pdfBase64 = v.pdfBase64
                /\ body[1].hasFields = v.hasFields
                /\ body[1].fields = v.fields
                /\ (pdfBuffer # <<>> /\ Truthy(v.pdfBase64))
                      => pdfBuffer[1] = Base64Decode(v.pdfBase64)
                /\ pdfDoc # <<>> => sreq.fields = v.fields
       ELSE /\ ~Truthy(body[1].pdfBase64)
            /\ ~body[1].hasFields
            /\ pdfBuffer # <<>> => pdfBuffer[1] = FallbackPdf(disk, now)
            /\ spc = "done" => /\ Len(sres) = 1 /\ sres[1].success
                               /\ sreq.fields = <<>> /\ marks = <<>>

\* a body that is no JSON text was answered with the success response
C19_Witness ==
    /\ spc = "done"
    /\ req.body = GarbageString
    /\ sres[1].success
    /\ sres[1].signedHash.sha256.marks = <<>>

\* no field of the parsed body has a page number below 1
NoLowPage ==
    \A i \in 1..Len(body[1].fields) : body[1].fields[i].page >= 1

-----------------------------------------------------------------------------
(* Server: several invocations of signPdf in progress at once *)

\* invocations in progress at the same time
MaxHandlers == 2
\* seconds the clock advances in one run
MaxClock == 1

\* the locals of one invocation before it has run
HandlerLocals ==
    [spc |-> "parse", sidx |-> 1, marks |-> <<>>, sres |-> <<>>, body |-> <<>>,
     pdfBuffer |-> <<>>, originalHash |-> <<>>, pdfDoc |-> <<>>,
     sreq |-> [fields |-> <<>>, pages |-> <<>>]]

\* signPdf from one await to the next, on the locals l of the invocation: the
\* request body rb, the disk d and the clock t are all it reads besides
SignPdfStep(l, rb, d, t) ==
    IF l.spc = "parse"
    THEN \* lines 10-21
         [l EXCEPT !.body = <<ParsedBody(rb)>>, !.spc = "start"]
    ELSE IF l.spc = "start"
    THEN \* lines 32-66
         LET buffer == IF Truthy(l.body[1].pdfBase64)
                       THEN Base64Decode(l.body[1].pdfBase64)
                       ELSE FallbackPdf(d, t)
             hashed == [l EXCEPT !.pdfBuffer = <<buffer>>,
                                 !.originalHash = <<Sha256(buffer)>>]
         IN  IF Loads(buffer)
             THEN [hashed EXCEPT
                      !.pdfDoc = <<LoadedDoc(buffer, t)>>,
                      !.sreq = [fields |-> IF l.body[1].hasFields
                                           THEN l.body[1].fields ELSE <<>>,
                                pages  |-> buffer.pages],
                      !.spc = "loop"]
             ELSE [hashed EXCEPT !.sres = Append(l.sres, ErrorResponse("load")),
                                 !.spc = "done"]
    ELSE IF l.spc = "loop" /\ l.sidx <= Len(l.sreq.fields)
    THEN \* lines 68-151
         LET field == l.sreq.fields[l.sidx]
             pageIndex == field.page - 1
             page == PageAt(l.sreq.pages, pageIndex)
         IN  IF SkipsPage(field, l.sreq.pages)
             THEN [l EXCEPT !.sidx = l.sidx + 1]
             ELSE IF page = <<>>
             THEN [l EXCEPT !.sres = Append(l.sres, ErrorResponse("getSize")),
                            !.spc = "done"]
             ELSE [l EXCEPT !.marks = l.marks \o DrawField(field, l.sidx, pageIndex + 1,
                                                           page[1]),
                            !.sidx = l.sidx + 1]
    ELSE IF l.spc = "loop"
    THEN \* lines 153-177
         [l EXCEPT !.sres = Append(l.sres, SignedResponse(l.pdfDoc[1], l.marks,
                                                          l.pdfBuffer[1],
                                                          l.originalHash[1])),
                   !.spc = "done"]
    ELSE l

\* signPdf run from the locals l to its response, nothing else going on
RECURSIVE RunAlone(_, _, _, _)
RunAlone(l, rb, d, t) ==
    IF l.spc = "done" THEN l ELSE RunAlone(SignPdfStep(l, rb, d, t), rb, d, t)

\* variant: the locals are module-level variables, shared by the invocations
LocalsShared(hs, i) == hs[1].l

\* the locals of invocation i: each call of signPdf has its own
Locals(hs, i) == hs[i].l

ConcurrentInit ==
    /\ ClientInit
    /\ NoRequest
    /\ handlers \in [1..MaxHandlers -> {[req |-> b, l |-> HandlerLocals] : b \in ResignBodies}]

\* one invocation runs up to its next await
HandlerStep ==
    /\ \E i \in DOMAIN handlers :
          /\ handlers[i].l.spc # "done"
          /\ handlers' = [handlers EXCEPT
                ![i].l = SignPdfStep(Locals(handlers, i), handlers[i].req, disk, now)]
    /\ UNCHANGED <<sreq, spc, sidx, marks, sres, req, body, pdfBuffer, originalHash,
                   pdfDoc, disk, now, log, signs, modalState>>
    /\ UNCHANGED cvars

\* a second passes
ClockTick ==
    /\ now < MaxClock
    /\ now' = now + 1
    /\ UNCHANGED <<sreq, spc, sidx, marks, sres, req, body, pdfBuffer, originalHash,
                   pdfDoc, disk, log, handlers, signs, modalState>>
    /\ UNCHANGED cvars

ConcurrentNext ==
    \/ HandlerStep
    \/ ClockTick

ConcurrentSpec == ConcurrentInit /\ [][ConcurrentNext]_vars

\* the time at which invocation i loaded its document (0 when it did not)
LoadTime(i) ==
    IF handlers[i].l.pdfDoc # <<>> THEN handlers[i].l.pdfDoc[1].modified[1] ELSE 0

-----------------------------------------------------------------------------
(* Client: handleSign and the result modal *)

\* clicks on the sign button in one run
MaxSigns == 2

\* the document shown in the viewer (the file prop), fetched at line 374
ViewerPdf == PdfFile([p \in 1..NumPages |-> <<600, 800>>])

\* (item as any).content: the member if the object has one, else undefined
ContentOf(item) == IF "content" \in DOMAIN item THEN item.content ELSE NoContent

\* variant: the entries carry an image as content
SignFieldsWithContent(flds) ==
    [i \in 1..Len(flds) |->
        [id |-> flds[i].id, type |-> flds[i].type, x |-> flds[i].x, y |-> flds[i].y,
         width |-> flds[i].width, height |-> flds[i].height, page |-> flds[i].page,
         content |-> PngContent]]

\* lines 404-414: the entries of fields; FieldData has no content member, so
\* (item as any).content is undefined
SignFields(flds) ==
    [i \in 1..Len(flds) |->
        [id      |-> flds[i].id,
         type    |-> flds[i].type,
         x       |-> flds[i].x,
         y       |-> flds[i].y,
         width   |-> flds[i].width,
         height  |-> flds[i].height,
         page    |-> flds[i].page,
         content |-> ContentOf(flds[i])]]

\* lines 394-403: the entries of signatures
SignSignatures(flds) ==
    LET sigs == SelectSeq(flds, LAMBDA f : f.type = "signature")
    IN  [i \in 1..Len(sigs) |->
            [id |-> sigs[i].id, imageBase64 |-> ContentOf(sigs[i]), x |-> sigs[i].x,
             y |-> sigs[i].y, width |-> sigs[i].width, height |-> sigs[i].height,
             page |-> sigs[i].page]]

\* variant: the body is built from the list as it is when the PDF has been read
SignBodyOfCurrent(captured, current, pdfBase64) ==
    [pdfBase64 |-> pdfBase64, pdfId |-> "sample",
     signatures |-> SignSignatures(current), fields |-> SignFields(current)]

\* lines 391-415: the object serialised as the request body; captured is the
\* fields of the render whose handleSign was called, current the list by now
SignBody(captured, current, pdfBase64) ==
    [pdfBase64  |-> pdfBase64,
     pdfId      |-> "sample",
     signatures |-> SignSignatures(captured),
     fields     |-> SignFields(captured)]

\* what express.json hands to signPdf for the body b
ReceivedBody(b) == BodyObject(b.pdfBase64, b.fields)

\* the answer of the server to the body b
ServerResult(b) == RunAlone(HandlerLocals, ReceivedBody(b), disk, now).sres[1]

\* what the await of lines 386-418 can end with for the body b: the server's
\* answer, an answer without success, or an exception
Outcomes(b) ==
    {[threw |-> FALSE, result |-> ServerResult(b)],
     [threw |-> FALSE, result |-> ErrorResponse("server")],
     [threw |-> TRUE,  result |-> ErrorResponse("network")]}

\* variant: every branch sets pdfUrl
ModalAfterAlwaysUrl(outcome) ==
    [isOpen |-> TRUE, title |-> "Signing Failed", type |-> "error", content |-> <<>>,
     pdfUrl |-> <<DataUri(NoPdfBase64)>>]

\* lines 420-457: the modal state set when the await has ended
ModalAfter(outcome) ==
    IF outcome.threw
    THEN [isOpen |-> TRUE, title |-> "Connection Error", type |-> "error",
          content |-> <<>>, pdfUrl |-> <<>>]
    ELSE IF outcome.result.success
    THEN [isOpen |-> TRUE, title |-> "Document Signed Successfully!", type |-> "success",
          content |-> <<outcome.result.originalHash, outcome.result.signedHash>>,
          pdfUrl |-> <<outcome.result.url>>]
    ELSE [isOpen |-> TRUE, title |-> "Signing Failed", type |-> "error",
          content |-> <<>>, pdfUrl |-> <<>>]

\* one more event handled, by handleSign or the modal
SignTick ==
    /\ nEvents < MaxEvents
    /\ nEvents' = nEvents + 1
    /\ UNCHANGED svars
    /\ UNCHANGED handlers
    /\ UNCHANGED <<fields, nextId, activeItem, overPageId, listeners, rafQueue>>

\* the sign button is clicked: handleSign of the current render starts (line 368)
SignClick ==
    /\ SignTick
    /\ Len(signs) < MaxSigns
    /\ signs' = Append(signs,
          [fields |-> fields, phase |-> "fetch", body |-> <<>>, outcome |-> <<>>,
           overlaps |-> \E k \in 1..Len(signs) : signs[k].phase # "done"])
    /\ lastOp' = [NoOp EXCEPT !.op = "sign"]
    /\ UNCHANGED modalState

\* lines 374-416: the PDF has been read and the request is sent, or reading it threw
SignPost ==
    /\ SignTick
    /\ \E k \in 1..Len(signs) :
          /\ signs[k].phase = "fetch"
          /\ \/ /\ signs' = [signs EXCEPT
                      ![k].phase = "posted",
                      ![k].body = <<SignBody(signs[k].fields, fields,
                                             Base64Encode(ViewerPdf))>>]
                /\ UNCHANGED modalState
             \/ LET outcome == [threw |-> TRUE, result |-> ErrorResponse("network")]
                IN  /\ signs' = [signs EXCEPT ![k].phase = "done",
                                              ![k].outcome = <<outcome>>]
                    /\ modalState' = ModalAfter(outcome)
    /\ lastOp' = [NoOp EXCEPT !.op = "signPost"]

\* lines 418-458: the await of the request has ended and the modal is set
SignResult ==
    /\ SignTick
    /\ \E k \in 1..Len(signs) :
          /\ signs[k].phase = "posted"
          /\ \E outcome \in Outcomes(signs[k].body[1]) :
                /\ signs' = [signs EXCEPT ![k].phase = "done",
                                          ![k].outcome = <<outcome>>]
                /\ modalState' = ModalAfter(outcome)
    /\ lastOp' = [NoOp EXCEPT !.op = "signResult"]

\* lines 547, 554: Close, the overlay or Escape
ModalClose ==
    /\ SignTick
    /\ modalState.isOpen
    /\ modalState' = [modalState EXCEPT !.isOpen = FALSE]
    /\ lastOp' = [NoOp EXCEPT !.op = "modalClose"]
    /\ UNCHANGED signs

\* placing, moving, resizing and deleting fields while sign requests are prepared
SignNext ==
    \/ DragStartTool
    \/ DragStartPlaced
    \/ DragMove
    \/ DragEnd
    \/ DragCancel
    \/ ResizePointerDown
    \/ ResizePointerMove
    \/ ResizePointerUp
    \/ AnimationFrame
    \/ DeleteField
    \/ SignClick
    \/ SignPost

SignSpec == Init /\ [][SignNext]_vars

\* sign requests and their answers, with tool drops between them
ModalNext ==
    \/ DragStartTool
    \/ DragEnd
    \/ SignClick
    \/ SignPost
    \/ SignResult
    \/ ModalClose

ModalSpec == Init /\ [][ModalNext]_vars

\* the seven attributes of a field that the request body repeats
SameEntry(e, f) ==
    /\ e.id = f.id
    /\ e.type = f.type
    /\ e.x = f.x
    /\ e.y = f.y
    /\ e.width = f.width
    /\ e.height = f.height
    /\ e.page = f.page

\* C22: the body of a sign request has exactly one entry per field of the list
\* at the moment sign was triggered, in list order, with the same id, type, x,
\* y, width, height and page; the list a request works on is the list at its
\* trigger, and once a body is built later edits of the list do not change it
C22_BodyIsListAtTrigger ==
    /\ [](\A k \in DOMAIN signs : signs[k].body # <<>> =>
             /\ Len(signs[k].body[1].fields) = Len(signs[k].fields)
             /\ \A i \in DOMAIN signs[k].fields :
                    SameEntry(signs[k].body[1].fields[i], signs[k].fields[i]))
    /\ [][\A k \in DOMAIN signs' :
             IF k \in DOMAIN signs
             THEN /\ signs'[k].fields = signs[k].fields
                  /\ signs[k].body # <<>> => signs'[k].body = signs[k].body
             ELSE signs'[k].fields = fields]_vars

\* a request whose body was built after the list had been edited
C22_Witness ==
    /\ Len(signs) = 1
    /\ signs[1].phase = "posted"
    /\ lastOp.op = "signPost"
    /\ Len(signs[1].fields) >= 1
    /\ signs[1].fields # fields

\* C23: resize handling is throttled to one update per animation frame: a
\* frame applies at most one resize update (onResize call) to the field list,
\* however many pointer-move events arrived since the frame before
C23_OneResizePerFrame ==
    [][(rafQueue # <<>> /\ rafQueue' = <<>>) => Len(rafQueue) <= 1]_vars

\* ---------------------------------------------------------------------
\* The box of lines 75-78 as JavaScript computes it: every / * - is an
\* IEEE-754 binary64 operation, rounded to nearest, ties to even.  A
\* magnitude is a bit vector, bit i standing for 2^(i - 1 - FracBits).

\* significand width of a binary64 number
Precision == 53

\* the finest bit of the percentages and page sizes explored is 2^-59
FracBits == 62

NumBits == 74

BitIndex == 1..NumBits

ZeroBits == [i \in BitIndex |-> 0]

\* the integer n (below 2^11) as a magnitude
FromInt(n) ==
    [i \in BitIndex |-> IF i > FracBits THEN (n \div 2^(i - FracBits - 1)) % 2 ELSE 0]

\* position of the leading 1, 0 for zero
Msb(a) ==
    LET S == {i \in BitIndex : a[i] = 1}
    IN  IF S = {} THEN 0 ELSE CHOOSE i \in S : \A j \in S : j <= i

LessBits(a, b) ==
    \E i \in BitIndex : a[i] < b[i] /\ \A j \in BitIndex : j > i => a[j] = b[j]

RECURSIVE AddFrom(_, _, _, _)
AddFrom(a, b, carry, acc) ==
    LET i == Len(acc) + 1
        t == a[i] + b[i] + carry
    IN  IF i > NumBits THEN acc
        ELSE AddFrom(a, b, t \div 2, Append(acc, t % 2))

\* a + b, exact
AddBits(a, b) == AddFrom(a, b, 0, <<>>)

RECURSIVE SubFrom(_, _, _, _)
SubFrom(a, b, borrow, acc) ==
    LET i == Len(acc) + 1
        t == a[i] - b[i] - borrow
    IN  IF i > NumBits THEN acc
        ELSE SubFrom(a, b, IF t < 0 THEN 1 ELSE 0, Append(acc, t % 2))

\* a - b for a >= b, exact
SubBits(a, b) == SubFrom(a, b, 0, <<>>)

RECURSIVE MulFrom(_, _, _, _)
MulFrom(a, m, carry, acc) ==
    LET i == Len(acc) + 1
        t == a[i] * m + carry
    IN  IF i > NumBits THEN acc
        ELSE MulFrom(a, m, t \div 2, Append(acc, t % 2))

\* a * m for a small integer m, exact
MulBits(a, m) == MulFrom(a, m, 0, <<>>)

\* long division of a by the small integer d, leading bit first: the
\* quotient bits found so far (last bit first) and the remainder
RECURSIVE DivFrom(_, _, _, _)
DivFrom(a, d, r, acc) ==
    LET i == NumBits - Len(acc)
        t == 2 * r + a[i]
        q == IF t >= d THEN 1 ELSE 0
    IN  IF i < 1 THEN [bits |-> acc, rem |-> r]
        ELSE DivFrom(a, d, t - d * q, <<q>> \o acc)

DivBits(a, d) == DivFrom(a, d, 0, <<>>)

\* round to nearest, ties to even, keeping Precision significant bits;
\* sticky tells that a nonzero part below the last bit of a was dropped
Round(a, sticky) ==
    LET m     == Msb(a)
        d     == m - Precision
        trunc == [i \in BitIndex |-> IF i <= d THEN 0 ELSE a[i]]
        low   == sticky \/ \E i \in 1..(d - 1) : a[i] = 1
        up    == a[d] = 1 /\ (low \/ a[d + 1] = 1)
    IN  IF m <= Precision THEN a
        ELSE IF up THEN AddBits(trunc, [i \in BitIndex |-> IF i = d + 1 THEN 1 ELSE 0])
        ELSE trunc

\* n / d for integers
DoubleDiv(n, d) ==
    LET q == DivBits(FromInt(n), d)
    IN  Round(q.bits, q.rem # 0)

\* a * m for an integer-valued m
DoubleMul(a, m) == Round(MulBits(a, m), FALSE)

\* s - b for a signed s and a magnitude b
DoubleSub(s, b) ==
    IF s.neg THEN [neg |-> TRUE, bits |-> Round(AddBits(s.bits, b), FALSE)]
    ELSE IF LessBits(s.bits, b) THEN [neg |-> TRUE, bits |-> Round(SubBits(b, s.bits), FALSE)]
    ELSE [neg |-> FALSE, bits |-> Round(SubBits(s.bits, b), FALSE)]

\* variant: the box without the height subtracted from y
DoubleBoxFromTop(field, size) ==
    LET pageWidth  == size[1]
        pageHeight == size[2]
    IN  [x      |-> DoubleMul(DoubleDiv(field.x, 100), pageWidth),
         height |-> DoubleMul(DoubleDiv(field.height, 100), pageHeight),
         width  |-> DoubleMul(DoubleDiv(field.width, 100), pageWidth),
         y      |-> DoubleSub([neg |-> FALSE, bits |-> FromInt(pageHeight)],
                              DoubleMul(DoubleDiv(field.y, 100), pageHeight))]

\* lines 75-78: x, hPoints, wPoints, y
DoubleBox(field, size) ==
    LET pageWidth  == size[1]
        pageHeight == size[2]
        hPoints    == DoubleMul(DoubleDiv(field.height, 100), pageHeight)
    IN  [x      |-> DoubleMul(DoubleDiv(field.x, 100), pageWidth),
         height |-> hPoints,
         width  |-> DoubleMul(DoubleDiv(field.width, 100), pageWidth),
         y      |-> DoubleSub(DoubleSub([neg |-> FALSE, bits |-> FromInt(pageHeight)],
                                        DoubleMul(DoubleDiv(field.y, 100), pageHeight)),
                              hPoints)]

\* percentages explored along each axis: origin and extent
BoxOrigins == {0, 10, 44, 55, 72, 90, 93}

BoxExtents == {0, 5, 7, 20, 28, 45, 56}

BoxFields ==
    {ReqField("text", ox[1], oy[1], ox[2], oy[2], 1, NoContent) :
        ox \in {<<0, 100>>, <<10, 20>>, <<72, 28>>, <<90, 20>>},
        oy \in {q \in BoxOrigins \X BoxExtents : q[1] + q[2] <= 100}}

\* the handler at the loop of line 68, one field to place on a one-page document
BoxInit ==
    /\ ClientInit
    /\ handlers = <<>>
    /\ sreq \in {[fields |-> <<f>>, pages |-> d] : f \in BoxFields, d \in {<< <<600, 800>> >>, << <<600, 400>> >>}}
    /\ spc = "loop"
    /\ sidx = 1
    /\ marks = <<>>
    /\ sres = <<>>
    /\ req = <<>>
    /\ body = <<>>
    /\ pdfBuffer = <<>>
    /\ originalHash = <<>>
    /\ pdfDoc = <<>>
    /\ disk = {}
    /\ now = 0
    /\ log = <<>>

\* lines 69-78 for the field at sidx
ComputeBox ==
    /\ spc = "loop"
    /\ sidx <= Len(sreq.fields)
    /\ ~SkipsPage(sreq.fields[sidx], sreq.pages)
    /\ marks' = Append(marks, [field |-> sidx, page |-> sreq.fields[sidx].page,
                               box |-> DoubleBox(sreq.fields[sidx], PageAt(sreq.pages, sreq.fields[sidx].page - 1)[1])])
    /\ sidx' = sidx + 1
    /\ UNCHANGED <<sreq, spc, sres, req, body, pdfBuffer, originalHash, pdfDoc, disk, now, log>>
    /\ UNCHANGED cvars
    /\ UNCHANGED xvars

BoxSpec == BoxInit /\ [][ComputeBox]_vars

\* the field invariant of the client: the rectangle lies in the page's 100 x 100 grid
FieldInvariant(f) ==
    /\ 0 <= f.x
    /\ 0 <= f.y
    /\ f.width >= 0
    /\ f.height >= 0
    /\ f.x + f.width <= 100
    /\ f.y + f.height <= 100

\* a <= b + slack for magnitudes
AtMost(a, b, slack) == ~LessBits(AddBits(b, slack), a)

\* the box lies inside the page, each bound allowed to fail by at most slack
BoxInside(box, size, slack) ==
    /\ AtMost(AddBits(box.x, box.width), FromInt(size[1]), slack)
    /\ box.y.neg => AtMost(box.y.bits, ZeroBits, slack)
    /\ IF box.y.neg THEN AtMost(box.height, FromInt(size[2]), slack)
       ELSE AtMost(AddBits(box.y.bits, box.height), FromInt(size[2]), slack)

\* 2^-40 point
RoundingSlack == [i \in BitIndex |-> IF i = FracBits - 39 THEN 1 ELSE 0]

\* C24 as stated: for every field that satisfies the field invariant the
\* computed box lies inside the page: 0 <= xPoints, xPoints + wPoints <=
\* pageWidth, 0 <= yPoints and yPoints + hPoints <= pageHeight
C24_BoxInsidePage ==
    \A k \in 1..Len(marks) :
        FieldInvariant(sreq.fields[marks[k].field]) =>
            BoxInside(marks[k].box, sreq.pages[marks[k].page], ZeroBits)

\* C24 amended: for every field that satisfies the field invariant the
\* computed box lies inside the page up to the rounding of the handler's
\* double-precision arithmetic: each of the four bounds holds within 2^-40 point
C24_BoxInsidePageRounded ==
    \A k \in 1..Len(marks) :
        FieldInvariant(sreq.fields[marks[k].field]) =>
            BoxInside(marks[k].box, sreq.pages[marks[k].page], RoundingSlack)

\* a field reaching the bottom edge whose computed yPoints is below zero
C24_Witness ==
    /\ Len(marks) = 1
    /\ FieldInvariant(sreq.fields[1])
    /\ sreq.fields[1].y + sreq.fields[1].height = 100
    /\ marks[1].box.y.neg
    /\ marks[1].box.y.bits # ZeroBits

\* C25: a field's id and type never change after creation; the set of field
\* ids changes only by a tool drop, which adds exactly one new id, or by a
\* delete, which removes exactly one id; move, resize, drag start, drag move,
\* drag cancel and sign leave the number of fields and the set of ids unchanged
C25_IdsAndTypesStable ==
    [][\/ fields' = fields
       \/ /\ \A i \in DOMAIN fields : \A j \in DOMAIN fields' :
                 fields'[j].id = fields[i].id => fields'[j].type = fields[i].type
          /\ \/ /\ Len(fields') = Len(fields)
                /\ \A i \in DOMAIN fields : fields'[i].id = fields[i].id
             \/ /\ lastOp'.op = "dragEnd"
                /\ activeItem # <<>> /\ activeItem[1].isTool
                /\ Len(fields') = Len(fields) + 1
                /\ \A i \in DOMAIN fields : fields'[i].id = fields[i].id
                /\ fields'[Len(fields')].id \notin Ids(fields)
             \/ /\ lastOp'.op = "delete"
                /\ Len(fields') = Len(fields) - 1
                /\ \E old \in Ids(fields) : Ids(fields') = Ids(fields) \ {old}]_vars

\* a second field was dropped after the first had been moved, resized and a sign started
C25_Witness ==
    /\ Len(fields) = 2
    /\ fields[1].id # fields[2].id
    /\ Len(signs) >= 1
    /\ lastOp.op = "dragEnd"
    /\ activeItem = <<>>

\* C26: every field's page is an integer in 1..numPages of the loaded
\* document, so no entry of a request body built by the client names a page
\* that the server would skip (or one below the first page)
C26_PagesExist ==
    /\ \A i \in DOMAIN fields : fields[i].page \in 1..NumPages
    /\ \A k \in DOMAIN signs : signs[k].body # <<>> =>
          \A i \in DOMAIN signs[k].body[1].fields :
              LET e == signs[k].body[1].fields[i]
              IN  /\ e.page >= 1
                  /\ ~SkipsPage(e, Base64Decode(signs[k].body[1].pdfBase64).pages)

\* a request was posted with a field that had been moved to the last page
C26_Witness ==
    /\ lastOp.op = "signPost"
    /\ \E k \in DOMAIN signs :
          /\ signs[k].body # <<>>
          /\ Len(signs[k].body[1].fields) = 2
          /\ signs[k].body[1].fields[1].page = NumPages
          /\ signs[k].body[1].fields[2].page = 1

\* C27: the drag-tracking state is reset at the end of every drag: after a
\* drag end (over a page, over nothing, or with no rectangle) and after a drag
\* cancel, activeItem and overPageId are null; activeItem becomes non-null only
\* by a drag start and stays so until the next drag end or cancel
C27_DragStateReset ==
    [][/\ lastOp'.op \in {"dragEnd", "dragCancel"} =>
              activeItem' = <<>> /\ overPageId' = <<>>
       /\ (activeItem = <<>> /\ activeItem' # <<>>) => lastOp'.op = "dragStart"
       /\ (activeItem # <<>> /\ activeItem' # activeItem) =>
              activeItem' = <<>> /\ lastOp'.op \in {"dragEnd", "dragCancel"}
       /\ (activeItem # <<>> /\ lastOp'.op \notin {"dragEnd", "dragCancel"}) =>
              activeItem' = activeItem]_vars

\* a drag ended over nothing while a field was placed
C27_Witness ==
    /\ lastOp.op = "dragEnd"
    /\ lastOp.over = 0
    /\ activeItem = <<>>
    /\ overPageId = <<>>
    /\ Len(fields) >= 1

\* C28: the modal carries a signed-PDF url only when it shows a success:
\* modalState.pdfUrl set implies modalState.type = 'success'; a sign attempt
\* that fails after an earlier successful one opens an error modal whose
\* pdfUrl is cleared
C28_UrlOnlyOnSuccess ==
    /\ modalState.pdfUrl # <<>> => modalState.type = "success"
    /\ \A k \in DOMAIN signs :
          (/\ signs[k].phase = "done"
           /\ \A j \in DOMAIN signs : j # k => signs[j].phase = "done" /\ j < k /\ ~signs[k].overlaps
           /\ ~(~signs[k].outcome[1].threw /\ signs[k].outcome[1].result.success))
          => modalState.type = "error" /\ modalState.pdfUrl = <<>>

\* the first request succeeded, the second, started after that, failed
C28_Witness ==
    /\ Len(signs) = 2
    /\ signs[1].phase = "done"
    /\ ~signs[1].outcome[1].threw
    /\ signs[1].outcome[1].result.success
    /\ ~signs[2].overlaps
    /\ signs[2].phase = "done"
    /\ ~signs[2].outcome[1].threw
    /\ ~signs[2].outcome[1].result.success
    /\ modalState.isOpen
    /\ modalState.type = "error"
    /\ modalState.pdfUrl = <<>>

\* what the modal shows: title, hashes and url
Shown(m) == [title |-> m.title, content |-> m.content, pdfUrl |-> m.pdfUrl]

\* C29: when sign is triggered a second time before the first request's
\* response has been handled, then once both responses have been handled the
\* modal shows the outcome of the request triggered last, whatever the order
\* in which the two responses arrived
C29_LastTriggeredShown ==
    (/\ Len(signs) = 2
     /\ signs[2].overlaps
     /\ signs[1].phase = "done"
     /\ signs[2].phase = "done")
    => Shown(modalState) = Shown(ModalAfter(signs[2].outcome[1]))

\* the drawing calls the sign handler makes for entry i of a request body
DrawnFor(b, i) ==
    LET e == ReceivedBody(b).fields[i]
    IN  DrawField(e, i, e.page, Base64Decode(b.pdfBase64).pages[e.page])

====
